---- MODULE Spec2Model ----
(***************************************************************************)
(* Model of the scoreboard tracker: the player table, the match table, and *)
(* the request handlers that write them (routes/players.rs,                *)
(* routes/matches.rs) and that aggregate them (routes/leaderboard.rs).     *)
(*                                                                         *)
(* Every handler leaves its result in `response`, together with the roster *)
(* and the match list it fetched, so that the properties below relate a    *)
(* result to the very snapshot it was computed from.                       *)
(***************************************************************************)
EXTENDS Integers, Sequences, FiniteSets, TLC

VARIABLES
    players,    \* the "players" table: RowKey (player id) -> the properties of the row
    matches,    \* the "matches" table as its partition query returns it: ascending RowKey
    response,   \* the response of the last request handled
    results,    \* StreakSpec: the boolean sequence last handed to calculate_streak
    streak,     \* StreakSpec: what calculate_streak returned for `results`
    inflight    \* RaceSpec: per client, the create_player request it has in flight

vars == <<players, matches, response, results, streak, inflight>>

----------------------------------------------------------------------------
(* Bounds and input sets                                                   *)

\* how many match records the table holds at most
MaxMatches == 2
\* longest boolean sequence handed to calculate_streak in StreakSpec
MaxResults == 6

\* The player identifiers that requests carry, in byte-wise ascending order.
IdOrder == <<"alice", "bob", "carol", "dave", "eve">>

Ids == {IdOrder[i] : i \in 1..Len(IdOrder)}

\* The identifiers create_player is called with ("dave" and "eve" are only
\* ever soft references from a match).
RosterIds == {"alice", "bob", "carol"}

Names == {"Ann"}

Nicknames == {""}

Avatars == {"pong"}

NoScore == "None"

\* Rust's `String < String`: byte-wise lexicographic comparison.
StrLess(x, y) ==
    LET rank(s) == CHOOSE i \in 1..Len(IdOrder) : IdOrder[i] = s
    IN  rank(x) < rank(y)

\* The four participant slots <<winner1, winner2, loser1, loser2>> that
\* create_match requests carry: two regular doubles results (bob and carol
\* once partners of the winner, once opponents of each other), and two
\* requests in which an identifier fills more than one slot (create_match
\* validates nothing).
MatchSlots ==
    { <<"alice", "bob",   "carol", "dave">>,
      <<"carol", "alice", "dave",  "bob">>,
      <<"alice", "alice", "bob",   "bob">>,
      <<"alice", "bob",   "alice", "carol">> }

----------------------------------------------------------------------------
(* models/match_record.rs: the reverse-timestamp RowKey                    *)

\* Width of the zero-padded reverse timestamp.
KeyWidth == 20

\* An instant is represented by its offset in milliseconds from
\* MAX_TIMESTAMP_MS (253_402_300_799_999 is beyond 32-bit integers):
\* played_at.timestamp_millis() = MAX_TIMESTAMP_MS + off.
\* The played_at values of the requests: the ceiling and the two
\* milliseconds before it.
Instants == {0 - 2, 0 - 1, 0}

\* The value Uuid::new_v4() returns, as the digit that stands for it in a key.
Uuids == {1}

\* let reverse = MAX_TIMESTAMP_MS - ms;
Reverse(off) == 0 - off

RECURSIVE Digits(_, _)
\* the w low decimal digits of n, most significant first, as character codes
Digits(n, w) ==
    IF w = 0 THEN <<>> ELSE Append(Digits(n \div 10, w - 1), 48 + (n % 10))

\* format!("{reverse:020}"): sign-aware zero padding to 20 characters
FormatReverse(r) ==
    IF r >= 0 THEN Digits(r, KeyWidth)
    ELSE <<45>> \o Digits(0 - r, KeyWidth - 1)

\* The key generate_match_row_key returns, held as the pair of the values
\* that are formatted into it.
generate_match_row_key(off, uuid) == <<Reverse(off), uuid>>

\* format!("{reverse:020}_{uuid}"): the characters of a key; a uuid is one
\* character here
RowKeyString(key) == FormatReverse(key[1]) \o <<95, 48 + key[2]>>

\* byte-wise lexicographic order on strings, the order of RowKeys in a table
LexLess(s, t) ==
    LET a == s
        b == t
    IN  \/ \E i \in 1..Len(a) :
               /\ i <= Len(b)
               /\ a[i] < b[i]
               /\ \A j \in 1..(i - 1) : a[j] = b[j]
        \/ /\ Len(a) < Len(b)
           /\ \A j \in 1..Len(a) : a[j] = b[j]

\* MatchRecord::new
NewMatchRecord(slots, recorded_by, off, uuid) ==
    [ id           |-> generate_match_row_key(off, uuid),
      winner1_id   |-> slots[1],
      winner2_id   |-> slots[2],
      loser1_id    |-> slots[3],
      loser2_id    |-> slots[4],
      winner_score |-> NoScore,
      loser_score  |-> NoScore,
      comment      |-> "",
      recorded_by  |-> recorded_by,
      played_at    |-> off ]

----------------------------------------------------------------------------
(* storage/players.rs and storage/matches.rs                               *)

PresentIds(tbl) == DOMAIN tbl

\* Player::from(entity)
PlayerOf(tbl, id) ==
    [ id           |-> id,
      name         |-> tbl[id].name,
      nickname     |-> tbl[id].nickname,
      avatar_emoji |-> tbl[id].avatar_emoji ]

RECURSIVE Orderings(_)
\* The sequences over a finite set S that hold every element exactly once.
Orderings(S) ==
    IF S = {} THEN {<<>>}
    ELSE UNION { {<<x>> \o rest : rest \in Orderings(S \ {x})} : x \in S }

\* list_players: every profile of the partition, in the order the store
\* streams them (the handler neither sorts nor relies on an order).
list_players(tbl) ==
    { [i \in DOMAIN o |-> PlayerOf(tbl, o[i])] : o \in Orderings(PresentIds(tbl)) }

\* DateTime::to_rfc3339 on an instant
ToRfc3339(off) == <<"rfc3339", off>>

\* DateTime::parse_from_rfc3339(..).is_ok()
ParsesAsRfc3339(str) == Len(str) = 2 /\ str[1] = "rfc3339"

\* impl From<MatchRecord> for MatchEntity
MatchEntityFrom(m) ==
    [ row_key      |-> m.id,
      winner1_id   |-> m.winner1_id,
      winner2_id   |-> m.winner2_id,
      loser1_id    |-> m.loser1_id,
      loser2_id    |-> m.loser2_id,
      winner_score |-> m.winner_score,
      loser_score  |-> m.loser_score,
      comment      |-> m.comment,
      recorded_by  |-> m.recorded_by,
      played_at    |-> ToRfc3339(m.played_at) ]

\* impl TryFrom<MatchEntity> for MatchRecord, on an entity that parses
MatchRecordFrom(e) ==
    [ id           |-> e.row_key,
      winner1_id   |-> e.winner1_id,
      winner2_id   |-> e.winner2_id,
      loser1_id    |-> e.loser1_id,
      loser2_id    |-> e.loser2_id,
      winner_score |-> e.winner_score,
      loser_score  |-> e.loser_score,
      comment      |-> e.comment,
      recorded_by  |-> e.recorded_by,
      played_at    |-> e.played_at[2] ]

\* Where the fetched roster only feeds a HashMap keyed by id (player_names),
\* the order the store streamed it in is immaterial: one order stands for all.
AnyOrder(rosters) == CHOOSE r \in rosters : TRUE

RECURSIVE InsertByKey(_, _)
\* the table after an insert: entities stay in ascending RowKey order
InsertByKey(tbl, e) ==
    IF tbl = <<>> THEN <<e>>
    ELSE IF LexLess(RowKeyString(e.row_key), RowKeyString(Head(tbl).row_key))
         THEN <<e>> \o tbl
    ELSE <<Head(tbl)>> \o InsertByKey(Tail(tbl), e)

\* the delete that drops the last row of the table, whatever the key
RemoveByKey_Last(tbl, key) == SubSeq(tbl, 1, Len(tbl) - 1)

\* the table after the delete of one RowKey
RemoveByKey(tbl, key) == SelectSeq(tbl, LAMBDA e : e.row_key # key)

RowKeys(tbl) == {tbl[i].row_key : i \in 1..Len(tbl)}

\* Option<T>: None is the empty sequence, Some(v) is <<v>>
None == <<>>

Some(v) == <<v>>

RECURSIVE ListFrom_StopAtMalformed(_, _, _)
\* the loop that ends the listing at the first entity that does not parse
ListFrom_StopAtMalformed(entities, max, acc) ==
    IF entities = <<>> THEN acc
    ELSE IF max # None /\ Len(acc) >= max[1] THEN acc
    ELSE IF ParsesAsRfc3339(Head(entities).played_at)
         THEN ListFrom_StopAtMalformed(Tail(entities), max,
                                       Append(acc, MatchRecordFrom(Head(entities))))
         ELSE acc

RECURSIVE ListFrom(_, _, _)
\* the loop of list_matches over the streamed entities, `acc` the matches so far
ListFrom(entities, max, acc) ==
    IF entities = <<>> THEN acc
    ELSE IF max # None /\ Len(acc) >= max[1] THEN acc
    ELSE IF ParsesAsRfc3339(Head(entities).played_at)
         THEN ListFrom(Tail(entities), max, Append(acc, MatchRecordFrom(Head(entities))))
         ELSE ListFrom(Tail(entities), max, acc)

\* the list_matches that skips the newest row
list_matches_older(tbl, limit) ==
    IF tbl = <<>> THEN <<>> ELSE ListFrom(Tail(tbl), limit, <<>>)

\* list_matches(storage, limit)
list_matches(tbl, limit) == ListFrom(tbl, limit, <<>>)

----------------------------------------------------------------------------
(* Responses                                                               *)

\* What a handler returns; roster and log are the snapshots it fetched.
Response(kind, status, roster, log, body) ==
    [ kind |-> kind, status |-> status, roster |-> roster, log |-> log, body |-> body ]

NoBody == "NoBody"

----------------------------------------------------------------------------
(* routes/players.rs over storage/players.rs                               *)

\* the table row of a profile
RowOf(player) ==
    [ name         |-> player.name,
      nickname     |-> player.nickname,
      avatar_emoji |-> player.avatar_emoji ]

\* the create that writes with insert-or-replace
create_player_upsert(req) ==
    LET player == [ id           |-> req.id,
                    name         |-> req.name,
                    nickname     |-> req.nickname,
                    avatar_emoji |-> req.avatar_emoji ]
    IN  /\ players' = [k \in DOMAIN players \cup {player.id} |->
                          IF k = player.id THEN RowOf(player) ELSE players[k]]
        /\ response' = Response("create_player", "Created", <<>>, <<>>, player)

\* POST /api/players
create_player(req) ==
    LET player == [ id           |-> req.id,
                    name         |-> req.name,
                    nickname     |-> req.nickname,
                    avatar_emoji |-> req.avatar_emoji ]
    IN
    IF player.id \in DOMAIN players
    THEN /\ response' = Response("create_player", "AlreadyExists", <<>>, <<>>, player.id)
         /\ UNCHANGED players
    ELSE /\ players' = players @@ (player.id :> RowOf(player))
         /\ response' = Response("create_player", "Created", <<>>, <<>>, player)

\* the update that stores the request body as the whole profile, a field
\* that was not supplied as the empty string
update_player_replace(id, name, nickname, avatar_emoji) ==
    IF id \notin DOMAIN players
    THEN /\ response' = Response("update_player", "NotFound", <<>>, <<>>, id)
         /\ UNCHANGED players
    ELSE LET current == [ id           |-> id,
                          name         |-> IF name # None THEN name[1] ELSE "",
                          nickname     |-> IF nickname # None THEN nickname[1] ELSE "",
                          avatar_emoji |-> IF avatar_emoji # None THEN avatar_emoji[1]
                                           ELSE "" ]
         IN  /\ players' = [players EXCEPT ![id] = RowOf(current)]
             /\ response' = Response("update_player", "Ok", <<>>, <<>>, current)

\* PUT /api/players/{id}
update_player(id, name, nickname, avatar_emoji) ==
    IF id \notin DOMAIN players
    THEN /\ response' = Response("update_player", "NotFound", <<>>, <<>>, id)
         /\ UNCHANGED players
    ELSE LET fetched == PlayerOf(players, id)
             current == [ id           |-> fetched.id,
                          name         |-> IF name # None THEN name[1] ELSE fetched.name,
                          nickname     |-> IF nickname # None THEN nickname[1]
                                           ELSE fetched.nickname,
                          avatar_emoji |-> IF avatar_emoji # None THEN avatar_emoji[1]
                                           ELSE fetched.avatar_emoji ]
         IN  /\ players' = [players EXCEPT ![id] = RowOf(current)]
             /\ response' = Response("update_player", "Ok", <<>>, <<>>, current)

\* DELETE /api/players/{id}
delete_player(id) ==
    IF id \notin DOMAIN players
    THEN /\ response' = Response("delete_player", "NotFound", <<>>, <<>>, id)
         /\ UNCHANGED players
    ELSE /\ players' = [k \in DOMAIN players \ {id} |-> players[k]]
         /\ response' = Response("delete_player", "NoContent", <<>>, <<>>, NoBody)

----------------------------------------------------------------------------
(* routes/matches.rs over storage/matches.rs                               *)

\* POST /api/matches
create_match(slots, off, uuid) ==
    LET record == NewMatchRecord(slots, "anonymous", off, uuid)
        entity == MatchEntityFrom(record)
    IN
    IF entity.row_key \in RowKeys(matches)
    THEN /\ response' = Response("create_match", "Azure", <<>>, <<>>, NoBody)
         /\ UNCHANGED matches
    ELSE /\ matches' = InsertByKey(matches, entity)
         /\ response' = Response("create_match", "Created", <<>>, <<>>, record)

\* DELETE /api/matches/{id}
delete_match(id) ==
    IF id \notin RowKeys(matches)
    THEN /\ response' = Response("delete_match", "NotFound", <<>>, <<>>, id)
         /\ UNCHANGED matches
    ELSE /\ matches' = RemoveByKey(matches, id)
         /\ response' = Response("delete_match", "NoContent", <<>>, <<>>, NoBody)

----------------------------------------------------------------------------
(* routes/leaderboard.rs: calculate_streak                                 *)

RECURSIVE TakeWhileEq(_, _)
\* results.iter().take_while(|&&r| r == first).count()
TakeWhileEq(rs, first) ==
    IF rs = <<>> \/ Head(rs) # first THEN 0
    ELSE 1 + TakeWhileEq(Tail(rs), first)

\* the streak without the negation for a run of losses
calculate_streak_unsigned(rs) ==
    IF rs = <<>> THEN 0 ELSE TakeWhileEq(rs, rs[1])

calculate_streak(rs) ==
    IF rs = <<>> THEN 0
    ELSE LET first == rs[1]
             count == TakeWhileEq(rs, first)
         IN  IF first THEN count ELSE 0 - count

----------------------------------------------------------------------------
(* routes/leaderboard.rs: get_leaderboard                                  *)

RECURSIVE Gcd(_, _)
Gcd(a, b) == IF b = 0 THEN a ELSE Gcd(b, a % b)

\* the quotient taken the wrong way round: total / w
WinRate_Inverted(w, total) ==
    IF total > 0
    THEN [ num |-> total \div Gcd(w, total), den |-> w \div Gcd(w, total) ]
    ELSE [ num |-> 0, den |-> 1 ]

\* the share of losses where the share of wins is meant
WinRate_LossRate(w, total) ==
    IF total > 0
    THEN [ num |-> (total - w) \div Gcd(total - w, total),
           den |-> total \div Gcd(total - w, total) ]
    ELSE [ num |-> 0, den |-> 1 ]

\* An f64 quotient w / total is represented by the fraction in lowest terms,
\* so that two win rates are the same value exactly when the f64s are equal.
WinRate(w, total) ==
    IF total > 0
    THEN [ num |-> w \div Gcd(w, total), den |-> total \div Gcd(w, total) ]
    ELSE [ num |-> 0, den |-> 1 ]

\* f64::partial_cmp on two win rates (never NaN)
RateCmp(x, y) ==
    IF x.num * y.den < y.num * x.den THEN "Less"
    ELSE IF x.num * y.den > y.num * x.den THEN "Greater"
    ELSE "Equal"

\* u32::cmp
NatCmp(x, y) == IF x < y THEN "Less" ELSE IF x > y THEN "Greater" ELSE "Equal"

\* Ordering::then
Then(first, second) == IF first # "Equal" THEN first ELSE second

\* the three HashMaps of get_leaderboard before the loop over all_matches
EmptyTally ==
    [ wins         |-> [id \in Ids |-> 0],
      losses       |-> [id \in Ids |-> 0],
      last_results |-> [id \in Ids |-> <<>>] ]

\* the winner's result pushed but the win not counted
TallyWinner_Uncounted(t, id) ==
    [t EXCEPT !.last_results[id] = Append(@, TRUE)]

\* *wins.entry(winner_id).or_default() += 1; last_results..push(true)
TallyWinner(t, id) ==
    [t EXCEPT !.wins[id] = @ + 1, !.last_results[id] = Append(@, TRUE)]

\* *losses.entry(loser_id).or_default() += 1; last_results..push(false)
TallyLoser(t, id) ==
    [t EXCEPT !.losses[id] = @ + 1, !.last_results[id] = Append(@, FALSE)]

\* the body of `for m in &all_matches`
TallyMatch(t, m) ==
    TallyLoser(TallyLoser(TallyWinner(TallyWinner(t, m.winner1_id), m.winner2_id),
                          m.loser1_id), m.loser2_id)

RECURSIVE TallyAll(_, _)
TallyAll(t, ms) ==
    IF ms = <<>> THEN t ELSE TallyAll(TallyMatch(t, Head(ms)), Tail(ms))

\* the closure of all_players.iter().map(..)
LeaderboardEntry(p, t) ==
    LET w     == t.wins[p.id]
        l     == t.losses[p.id]
        total == w + l
    IN  [ player_id    |-> p.id,
          player_name  |-> p.name,
          avatar_emoji |-> p.avatar_emoji,
          nickname     |-> p.nickname,
          wins         |-> w,
          losses       |-> l,
          total_games  |-> total,
          win_rate     |-> WinRate(w, total),
          streak       |-> calculate_streak(t.last_results[p.id]) ]

\* the comparator without its tie-break on total games
LeaderboardCmp_RateOnly(a, b) == RateCmp(b.win_rate, a.win_rate)

\* the comparator of entries.sort_by
LeaderboardCmp(a, b) ==
    Then(RateCmp(b.win_rate, a.win_rate), NatCmp(b.total_games, a.total_games))

\* the comparator of rivalries.sort_by in get_rivalries
RivalryCmp(a, b) ==
    NatCmp(b.player1_wins + b.player2_wins, a.player1_wins + a.player2_wins)

\* the closure handed to sort_by, by the handler that sorts
Compare(by, a, b) ==
    IF by = "leaderboard" THEN LeaderboardCmp(a, b) ELSE RivalryCmp(a, b)

RECURSIVE InsertStable(_, _, _)
\* x goes behind every element that does not compare Greater than it
InsertStable(sorted, x, by) ==
    IF sorted = <<>> THEN <<x>>
    ELSE IF Compare(by, Head(sorted), x) = "Greater" THEN <<x>> \o sorted
    ELSE <<Head(sorted)>> \o InsertStable(Tail(sorted), x, by)

RECURSIVE SortBy(_, _, _)
\* slice::sort_by, a stable sort: the elements of xs added to `sorted` in turn
SortBy(sorted, xs, by) ==
    IF xs = <<>> THEN sorted
    ELSE SortBy(InsertStable(sorted, Head(xs), by), Tail(xs), by)

\* a leaderboard that lists only the players who have played
Leaderboard_PlayedOnly(all_players, all_matches) ==
    LET t       == TallyAll(EmptyTally, all_matches)
        entries == [i \in DOMAIN all_players |-> LeaderboardEntry(all_players[i], t)]
    IN  SortBy(<<>>, SelectSeq(entries, LAMBDA e : e.total_games > 0), "leaderboard")

\* the entries get_leaderboard returns for the fetched roster and matches
Leaderboard(all_players, all_matches) ==
    LET t       == TallyAll(EmptyTally, all_matches)
        entries == [i \in DOMAIN all_players |-> LeaderboardEntry(all_players[i], t)]
    IN  SortBy(<<>>, entries, "leaderboard")

\* GET /api/leaderboard
get_leaderboard ==
    \E all_players \in list_players(players) :
        LET all_matches == list_matches(matches, None)
        IN  /\ response' = Response("leaderboard", "Ok", all_players, all_matches,
                                    Leaderboard(all_players, all_matches))
            /\ UNCHANGED <<players, matches>>

----------------------------------------------------------------------------
(* routes/leaderboard.rs: get_player_stats                                 *)

\* recent.len() < 10
RecentLimit == 10

\* w + l >= 2 in the best_partner filter
PartnerMinGames == 2

\* *l >= 2 in the nemesis filter
NemesisMinLosses == 2

\* the recent list that keeps every match of the player
RecentPush_Unbounded(recent, m) == Append(recent, m)

\* if recent.len() < 10 { recent.push(m.clone()); }
RecentPush(recent, m) ==
    IF Len(recent) < RecentLimit THEN Append(recent, m) ELSE recent

\* map.entry(key).or_default().0 += 1 (slot 1) or .1 += 1 (slot 2) on a
\* HashMap<_, (u32, u32)>, a function whose domain is the keys inserted so far
Bump(map, key, slot) ==
    IF key \in DOMAIN map
    THEN [map EXCEPT ![key][slot] = @ + 1]
    ELSE map @@ (key :> IF slot = 1 THEN <<1, 0>> ELSE <<0, 1>>)

\* the locals of get_player_stats before the loop over all_matches
EmptyStats ==
    [ wins            |-> 0,
      losses          |-> 0,
      results         |-> <<>>,
      partner_record  |-> <<>>,
      opponent_record |-> <<>>,
      recent          |-> <<>> ]

\* the body of `for m in &all_matches` in get_player_stats
StatsMatch(st, m, player_id) ==
    LET is_winner == m.winner1_id = player_id \/ m.winner2_id = player_id
        is_loser  == m.loser1_id = player_id \/ m.loser2_id = player_id
        recent    == RecentPush(st.recent, m)
    IN  IF ~is_winner /\ ~is_loser THEN st
        ELSE IF is_winner
        THEN LET partner == IF m.winner1_id = player_id THEN m.winner2_id
                            ELSE m.winner1_id
             IN  [ wins            |-> st.wins + 1,
                   losses          |-> st.losses,
                   results         |-> Append(st.results, TRUE),
                   partner_record  |-> Bump(st.partner_record, partner, 1),
                   opponent_record |-> Bump(Bump(st.opponent_record, m.loser1_id, 1),
                                            m.loser2_id, 1),
                   recent          |-> recent ]
        ELSE LET partner == IF m.loser1_id = player_id THEN m.loser2_id
                            ELSE m.loser1_id
             IN  [ wins            |-> st.wins,
                   losses          |-> st.losses + 1,
                   results         |-> Append(st.results, FALSE),
                   partner_record  |-> Bump(st.partner_record, partner, 2),
                   opponent_record |-> Bump(Bump(st.opponent_record, m.winner1_id, 2),
                                            m.winner2_id, 2),
                   recent          |-> recent ]

RECURSIVE StatsAll(_, _, _)
StatsAll(st, ms, player_id) ==
    IF ms = <<>> THEN st
    ELSE StatsAll(StatsMatch(st, Head(ms), player_id), Tail(ms), player_id)

\* the lookup that falls back to the identifier itself
NameOf_Id(player_names, id) ==
    IF id \in DOMAIN player_names THEN player_names[id] ELSE id

\* player_names.get(id).unwrap_or(&"Unknown")
NameOf(player_names, id) ==
    IF id \in DOMAIN player_names THEN player_names[id] ELSE "Unknown"

\* all_players.iter().map(|p| (p.id, p.name)).collect::<HashMap>()
PlayerNames(all_players) ==
    [id \in {all_players[i].id : i \in DOMAIN all_players} |->
        (CHOOSE p \in {all_players[i] : i \in DOMAIN all_players} : p.id = id).name]

\* partner_record.iter().filter(w + l >= 2).max_by_key(w): the HashMap
\* iterates in an arbitrary order, so any teammate with the maximal key can
\* be the one returned
BestPartners(partner_record, player_names) ==
    LET eligible == {k \in DOMAIN partner_record :
                        partner_record[k][1] + partner_record[k][2] >= PartnerMinGames}
        best     == {k \in eligible :
                        \A o \in eligible : partner_record[o][1] <= partner_record[k][1]}
    IN  IF eligible = {} THEN {None}
        ELSE { Some([ partner_id   |-> k,
                      partner_name |-> NameOf(player_names, k),
                      wins         |-> partner_record[k][1],
                      losses       |-> partner_record[k][2] ]) : k \in best }

\* opponent_record.iter().filter(l >= 2).max_by_key(l)
Nemeses(opponent_record, player_names) ==
    LET eligible == {k \in DOMAIN opponent_record : opponent_record[k][2] >= NemesisMinLosses}
        worst    == {k \in eligible :
                        \A o \in eligible : opponent_record[o][2] <= opponent_record[k][2]}
    IN  IF eligible = {} THEN {None}
        ELSE { Some([ opponent_id    |-> k,
                      opponent_name  |-> NameOf(player_names, k),
                      wins_against   |-> opponent_record[k][1],
                      losses_against |-> opponent_record[k][2] ]) : k \in worst }

\* the PlayerStats get_player_stats can return for the fetched player, matches
\* and roster
PlayerStats(player, all_matches, all_players) ==
    LET st           == StatsAll(EmptyStats, all_matches, player.id)
        total        == st.wins + st.losses
        player_names == PlayerNames(all_players)
    IN  { [ player_id      |-> player.id,
            player_name    |-> player.name,
            avatar_emoji   |-> player.avatar_emoji,
            nickname       |-> player.nickname,
            wins           |-> st.wins,
            losses         |-> st.losses,
            total_games    |-> total,
            win_rate       |-> WinRate(st.wins, total),
            streak         |-> calculate_streak(st.results),
            best_partner   |-> bp,
            nemesis        |-> nm,
            recent_matches |-> st.recent ] :
          bp \in BestPartners(st.partner_record, player_names),
          nm \in Nemeses(st.opponent_record, player_names) }

\* GET /api/players/{id}/stats
get_player_stats(player_id) ==
    /\ UNCHANGED <<players, matches>>
    /\ IF player_id \notin DOMAIN players
       THEN response' = Response("player_stats", "NotFound", <<>>, <<>>, player_id)
       ELSE LET player      == PlayerOf(players, player_id)
                all_matches == list_matches(matches, None)
                all_players == AnyOrder(list_players(players))
            IN  \E stats \in PlayerStats(player, all_matches, all_players) :
                    response' = Response("player_stats", "Ok",
                                         PlayerNames(all_players), all_matches, stats)

----------------------------------------------------------------------------
(* routes/leaderboard.rs: get_rivalries                                    *)

\* one winner-loser pair of a match: the canonical key and the counter bumped
RivalryPair(h2h, winner, loser) ==
    IF StrLess(winner, loser)
    THEN Bump(h2h, <<winner, loser>>, 1)
    ELSE Bump(h2h, <<loser, winner>>, 2)

\* the body of `for m in &all_matches` in get_rivalries
RivalryMatch(h2h, m) ==
    RivalryPair(RivalryPair(RivalryPair(RivalryPair(h2h,
        m.winner1_id, m.loser1_id), m.winner1_id, m.loser2_id),
        m.winner2_id, m.loser1_id), m.winner2_id, m.loser2_id)

RECURSIVE HeadToHead(_, _)
HeadToHead(h2h, ms) ==
    IF ms = <<>> THEN h2h ELSE HeadToHead(RivalryMatch(h2h, Head(ms)), Tail(ms))

\* w1 + w2 >= 2 in the rivalry filter
RivalryMinGames == 2

\* every pair that met, shown without the minimum of two games
ShownPairs_All(h2h) == DOMAIN h2h

\* .filter(|(_, (w1, w2))| w1 + w2 >= 2)
ShownPairs(h2h) == {k \in DOMAIN h2h : h2h[k][1] + h2h[k][2] >= RivalryMinGames}

\* .map(|((p1, p2), (p1_wins, p2_wins))| RivalryEntry { .. })
RivalryEntry(k, h2h, player_names) ==
    [ player1_id   |-> k[1],
      player1_name |-> NameOf(player_names, k[1]),
      player2_id   |-> k[2],
      player2_name |-> NameOf(player_names, k[2]),
      player1_wins |-> h2h[k][1],
      player2_wins |-> h2h[k][2] ]

\* the lists get_rivalries can return: h2h.into_iter() yields the pairs in an
\* arbitrary order, which the stable sort keeps among equal totals
Rivalries(all_players, all_matches) ==
    LET h2h          == HeadToHead(<<>>, all_matches)
        player_names == PlayerNames(all_players)
    IN  { SortBy(<<>>, [i \in DOMAIN o |-> RivalryEntry(o[i], h2h, player_names)],
                 "rivalries") : o \in Orderings(ShownPairs(h2h)) }

\* GET /api/rivalries
get_rivalries ==
    /\ UNCHANGED <<players, matches>>
    /\ LET all_players == AnyOrder(list_players(players))
           all_matches == list_matches(matches, None)
       IN  \E rivalries \in Rivalries(all_players, all_matches) :
               response' = Response("rivalries", "Ok", PlayerNames(all_players),
                                    all_matches, rivalries)

----------------------------------------------------------------------------
(* The service                                                             *)

NoResponse == Response("none", "none", <<>>, <<>>, NoBody)

\* The clients that can have a request in flight at the same time.
Clients == {1, 2}

Idle == [ state |-> "idle" ]

NoRequests == [c \in Clients |-> Idle]

Init ==
    /\ players = <<>>
    /\ matches = <<>>
    /\ response = NoResponse
    /\ results = <<>>
    /\ streak = 0
    /\ inflight = NoRequests

\* The bodies of the update requests: <<name, nickname, avatar_emoji>>, with
\* no field, one field or every field supplied.
UpdateRequests ==
    {<<None, None, None>>}
    \cup {<<Some(n), None, None>> : n \in Names}
    \cup {<<None, Some(n), None>> : n \in Nicknames}
    \cup {<<None, None, Some(a)>> : a \in Avatars}
    \cup {<<Some(n), Some(k), Some(a)>> : n \in Names, k \in Nicknames, a \in Avatars}

CreatePlayer ==
    /\ \E id \in RosterIds, name \in Names, nickname \in Nicknames, avatar \in Avatars :
           create_player([ id |-> id, name |-> name, nickname |-> nickname,
                           avatar_emoji |-> avatar ])
    /\ UNCHANGED <<matches, results, streak, inflight>>

UpdatePlayer ==
    /\ \E id \in RosterIds, req \in UpdateRequests :
           update_player(id, req[1], req[2], req[3])
    /\ UNCHANGED <<matches, results, streak, inflight>>

DeletePlayer ==
    /\ \E id \in RosterIds : delete_player(id)
    /\ UNCHANGED <<matches, results, streak, inflight>>

CreateMatch ==
    /\ Len(matches) < MaxMatches
    /\ \E slots \in MatchSlots, off \in Instants, uuid \in Uuids :
           create_match(slots, off, uuid)
    /\ UNCHANGED <<players, results, streak, inflight>>

DeleteMatch ==
    /\ \E off \in Instants, uuid \in Uuids :
           delete_match(generate_match_row_key(off, uuid))
    /\ UNCHANGED <<players, results, streak, inflight>>

GetLeaderboard ==
    /\ get_leaderboard
    /\ UNCHANGED <<results, streak, inflight>>

GetPlayerStats ==
    /\ \E id \in Ids : get_player_stats(id)
    /\ UNCHANGED <<results, streak, inflight>>

GetRivalries ==
    /\ get_rivalries
    /\ UNCHANGED <<results, streak, inflight>>

Next ==
    \/ CreatePlayer
    \/ UpdatePlayer
    \/ DeletePlayer
    \/ CreateMatch
    \/ DeleteMatch
    \/ GetLeaderboard
    \/ GetPlayerStats
    \/ GetRivalries

Spec == Init /\ [][Next]_vars

----------------------------------------------------------------------------
(* The player statistics over longer histories: a roster, and matches      *)
(* recorded one after the other, each played after the ones before.        *)

\* how many match records this history holds at most
MaxStatsMatches == 4

\* The slots of the requests: alice wins with bob, wins with carol, and
\* loses with bob or with carol against the other two.
StatsSlots ==
    { <<"alice", "bob",   "carol", "dave">>,
      <<"alice", "carol", "bob",   "dave">>,
      <<"carol", "dave",  "alice", "bob">>,
      <<"bob",   "dave",  "carol", "alice">> }

\* played_at of the next request: one millisecond after the newest match
NextInstant(cap) == Len(matches) - cap

RecordStatsMatch ==
    /\ Len(matches) < MaxStatsMatches
    /\ \E slots \in StatsSlots, uuid \in Uuids :
           create_match(slots, NextInstant(MaxStatsMatches), uuid)
    /\ UNCHANGED <<players, results, streak, inflight>>

StatsNext ==
    \/ CreatePlayer
    \/ DeletePlayer
    \/ RecordStatsMatch
    \/ GetPlayerStats

StatsSpec == Init /\ [][StatsNext]_vars

----------------------------------------------------------------------------
(* The recent matches of one player over a history longer than the limit   *)

\* how many match records this history holds at most
MaxRecentMatches == 12

\* The slots of the requests: a match carol plays in and one she does not.
RecentSlots ==
    { <<"alice", "bob",   "carol", "dave">>,
      <<"alice", "alice", "bob",   "bob">> }

\* The state after the first request, a create_player for carol.
RecentInit ==
    LET carol == [ id |-> "carol", name |-> "Ann", nickname |-> "",
                   avatar_emoji |-> "pong" ]
    IN  /\ players = ("carol" :> RowOf(carol))
        /\ matches = <<>>
        /\ response = Response("create_player", "Created", <<>>, <<>>, carol)
        /\ results = <<>>
        /\ streak = 0
        /\ inflight = NoRequests
    /\ inflight = NoRequests

RecordRecentMatch ==
    /\ Len(matches) < MaxRecentMatches
    /\ \E slots \in RecentSlots, uuid \in Uuids :
           create_match(slots, NextInstant(MaxRecentMatches), uuid)
    /\ UNCHANGED <<players, results, streak, inflight>>

RecentNext ==
    \/ RecordRecentMatch
    \/ GetPlayerStats

RecentSpec == RecentInit /\ [][RecentNext]_vars

----------------------------------------------------------------------------
(* The match table under client-supplied played_at values on both sides of *)
(* MAX_TIMESTAMP_MS                                                        *)

\* how many match records this table holds at most
MaxKeyMatches == 3

\* The played_at values of the requests, as offsets from MAX_TIMESTAMP_MS:
\* the last three milliseconds of the year 9999 and the first two of the
\* year 10000 (DateTime<Utc> reaches far beyond, and the handler checks no
\* range).
KeyInstants == {0 - 2, 0 - 1, 0, 1, 2}

KeySlots == { <<"alice", "bob", "carol", "dave">> }

RecordKeyedMatch ==
    /\ Len(matches) < MaxKeyMatches
    /\ \E slots \in KeySlots, off \in KeyInstants, uuid \in Uuids :
           create_match(slots, off, uuid)
    /\ UNCHANGED <<players, results, streak, inflight>>

DeleteKeyedMatch ==
    /\ \E off \in KeyInstants, uuid \in Uuids :
           delete_match(generate_match_row_key(off, uuid))
    /\ UNCHANGED <<players, results, streak, inflight>>

KeyNext ==
    \/ RecordKeyedMatch
    \/ DeleteKeyedMatch

KeySpec == Init /\ [][KeyNext]_vars

----------------------------------------------------------------------------
(* list_matches over the tables the store can hold, rows with a played_at  *)
(* that does not parse included                                            *)

\* how many rows a stored table holds at most
MaxStored == 3

\* the played_at instants of the stored rows
StoredInstants == {0 - 3, 0 - 2, 0 - 1, 0}

\* a played_at property that DateTime::parse_from_rfc3339 rejects
Unparseable == <<"not a timestamp">>

\* The rows of the table: the entity create_match stores, as stored or with
\* its played_at property unparseable.
StoredRows ==
    LET stored(off) == MatchEntityFrom(NewMatchRecord(<<"alice", "bob", "carol", "dave">>,
                                                      "anonymous", off, 1))
    IN  {stored(off) : off \in StoredInstants}
        \cup {[stored(off) EXCEPT !.played_at = Unparseable] : off \in StoredInstants}

\* The tables: up to MaxStored rows in strictly ascending RowKey order.
StoredTables ==
    { t \in UNION {[1..k -> StoredRows] : k \in 0..MaxStored} :
        \A i \in 1..(Len(t) - 1) :
            LexLess(RowKeyString(t[i].row_key), RowKeyString(t[i + 1].row_key)) }

\* the `limit` query parameter
Limits == {None} \cup {Some(n) : n \in 0..MaxStored}

ListInit ==
    /\ players = <<>>
    /\ matches \in StoredTables
    /\ response = NoResponse
    /\ results = <<>>
    /\ streak = 0
    /\ inflight = NoRequests

\* GET /api/matches
ListMatches ==
    /\ \E limit \in Limits :
           response' = Response("list_matches", "Ok", <<>>, <<>>,
                                [ limit   |-> limit,
                                  matches |-> list_matches(matches, limit) ])
    /\ UNCHANGED <<players, matches, results, streak, inflight>>

ListSpec == ListInit /\ [][ListMatches]_vars

----------------------------------------------------------------------------
(* Concurrent POST /api/players requests: a handler builds the Player from *)
(* its request, then awaits the insert, and another handler can run in     *)
(* between.                                                                *)

RaceIds == {"alice", "bob"}

ProfileNames == {"Ann", "Bea"}

\* the handler of client c has taken its request and built the Player;
\* `fresh` notes whether the id was absent from the table at that moment
BeginCreate(c) ==
    /\ inflight[c].state \in {"idle", "done"}
    /\ \E id \in RaceIds, name \in ProfileNames :
           inflight' = [inflight EXCEPT ![c] =
                           [ state  |-> "sent",
                             req    |-> [ id |-> id, name |-> name, nickname |-> "",
                                          avatar_emoji |-> "pong" ],
                             fresh  |-> id \notin DOMAIN players,
                             status |-> "none" ]]
    /\ UNCHANGED <<players, matches, response, results, streak>>

\* the insert of client c's handler reaches the table and the handler answers
FinishCreate(c) ==
    /\ inflight[c].state = "sent"
    /\ create_player(inflight[c].req)
    /\ inflight' = [inflight EXCEPT ![c].state = "done", ![c].status = response'.status]
    /\ UNCHANGED <<matches, results, streak>>

RaceNext ==
    \/ \E c \in Clients : BeginCreate(c)
    \/ \E c \in Clients : FinishCreate(c)

RaceSpec == Init /\ [][RaceNext]_vars

----------------------------------------------------------------------------
(* PUT /api/players/{id} over profiles whose fields differ, the handlers    *)
(* running one after the other; inflight[1] keeps the request of the last  *)
(* update.                                                                 *)

\* how many match records the table holds at most
MaxProfileMatches == 1

ProfileNicknames == {"", "Ace"}

ProfileAvatars == {"pong", "star"}

\* The bodies of the update requests: each field absent or one of its values.
ProfileUpdates ==
    { <<n, k, a>> : n \in {None} \cup {Some(v) : v \in ProfileNames},
                    k \in {None} \cup {Some(v) : v \in ProfileNicknames},
                    a \in {None} \cup {Some(v) : v \in ProfileAvatars} }

ProfileCreate ==
    /\ \E id \in RaceIds, name \in ProfileNames :
           create_player([ id |-> id, name |-> name, nickname |-> "",
                           avatar_emoji |-> "pong" ])
    /\ UNCHANGED <<matches, results, streak, inflight>>

ProfileUpdate ==
    /\ \E id \in RaceIds, req \in ProfileUpdates :
           /\ update_player(id, req[1], req[2], req[3])
           /\ inflight' = [inflight EXCEPT ![1] =
                              [ state        |-> "done",
                                id           |-> id,
                                name         |-> req[1],
                                nickname     |-> req[2],
                                avatar_emoji |-> req[3] ]]
    /\ UNCHANGED <<matches, results, streak>>

ProfileDelete ==
    /\ \E id \in RaceIds : delete_player(id)
    /\ UNCHANGED <<matches, results, streak, inflight>>

RecordProfileMatch ==
    /\ Len(matches) < MaxProfileMatches
    /\ \E slots \in KeySlots, uuid \in Uuids :
           create_match(slots, NextInstant(MaxProfileMatches), uuid)
    /\ UNCHANGED <<players, results, streak, inflight>>

ProfileNext ==
    \/ ProfileCreate
    \/ ProfileUpdate
    \/ ProfileDelete
    \/ RecordProfileMatch

ProfileSpec == Init /\ [][ProfileNext]_vars

----------------------------------------------------------------------------
(* auth/oidc.rs, auth/middleware.rs, routes/auth.rs and the router of      *)
(* routes/mod.rs: requests that carry a Cookie header or none              *)

\* how many match records the table holds at most
MaxAuthMatches == 1

\* SessionClaims, exp and iat apart (the token carries them as `expired`)
ClaimsOf(user_id, name, email) == [ sub |-> user_id, name |-> name, email |-> email ]

\* create_session_token: the claims signed with the session secret
create_session_token(user_id, name, email) ==
    [ claims |-> ClaimsOf(user_id, name, email), key |-> "session_secret", expired |-> FALSE ]

\* validate_session_token: the claims of a token that carries our signature
\* and has not expired
validate_session_token(token) ==
    IF token.key = "session_secret" /\ ~token.expired THEN Some(token.claims) ELSE None

\* The tokens a client can send: the sessions of two users, a session that
\* has expired, and a token signed with another key.
SessionTokens ==
    LET uma == create_session_token("u1", "Uma", "uma@example.com")
        vic == create_session_token("u2", "Vic", "vic@example.com")
    IN  { uma, vic, [uma EXCEPT !.expired = TRUE], [vic EXCEPT !.key = "forged"] }

\* the name of the session cookie
SESSION_COOKIE_NAME == "session"

\* The Cookie headers of the requests: none, or a list of cookies.
CookieHeaders ==
    LET theme      == [ name |-> "theme", value |-> "dark" ]
        session(t) == [ name |-> SESSION_COOKIE_NAME, value |-> t ]
    IN  {None} \cup {Some(<<theme>>)}
        \cup {Some(<<session(t)>>) : t \in SessionTokens}
        \cup {Some(<<theme, session(t)>>) : t \in SessionTokens}

\* the value of the first cookie of the header named "session"
SessionCookie(cookie_header) ==
    IF cookie_header = None THEN None
    ELSE LET cookies == cookie_header[1]
             found   == {i \in DOMAIN cookies : cookies[i].name = SESSION_COOKIE_NAME}
         IN  IF found = {} THEN None
             ELSE Some(cookies[CHOOSE i \in found : \A j \in found : i <= j].value)

\* the routes of auth_routes
AuthRoutes == {"GET /auth/login", "GET /auth/callback", "GET /auth/me", "POST /auth/logout"}

\* the routes of data_routes
DataRoutes ==
    { "GET /players", "POST /players", "PUT /players/{id}", "DELETE /players/{id}",
      "GET /matches", "POST /matches", "DELETE /matches/{id}",
      "GET /leaderboard", "GET /players/{id}/stats", "GET /rivalries" }

Routes == AuthRoutes \cup DataRoutes

\* the handler each route is bound to
HandlerOf(route) ==
    CASE route = "GET /auth/login"         -> "login"
      [] route = "GET /auth/callback"      -> "callback"
      [] route = "GET /auth/me"            -> "me"
      [] route = "POST /auth/logout"       -> "logout"
      [] route = "GET /players"            -> "list_players"
      [] route = "POST /players"           -> "create_player"
      [] route = "PUT /players/{id}"       -> "update_player"
      [] route = "DELETE /players/{id}"    -> "delete_player"
      [] route = "GET /matches"            -> "list_matches"
      [] route = "POST /matches"           -> "create_match"
      [] route = "DELETE /matches/{id}"    -> "delete_match"
      [] route = "GET /leaderboard"        -> "leaderboard"
      [] route = "GET /players/{id}/stats" -> "player_stats"
      [] route = "GET /rivalries"          -> "rivalries"

\* the router that layers require_auth over the writing routes only
Layered_WritesOnly(route) ==
    route \in DataRoutes
          \ {"GET /players", "GET /matches", "GET /leaderboard",
             "GET /players/{id}/stats", "GET /rivalries"}

\* the routes under .layer(middleware::from_fn(require_auth))
Layered(route) == route \in DataRoutes

\* GET /api/auth/login
login ==
    /\ response' = Response("login", "TemporaryRedirect", <<>>, <<>>, "authorize_url")
    /\ UNCHANGED <<players, matches>>

\* The callback queries, and what exchange_code and decode_id_token_claims
\* make of the code: a failed exchange, a response without id_token, an
\* id_token that does not decode, or the claims of the user.
CallbackQueries ==
    { [ code |-> None,         error |-> Some("access_denied") ],
      [ code |-> None,         error |-> None ],
      [ code |-> Some("code"), error |-> None ] }

Exchanges ==
    { [ outcome |-> "exchange_failed" ],
      [ outcome |-> "no_id_token" ],
      [ outcome |-> "undecodable" ],
      [ outcome |-> "claims", oid |-> Some("u1"), sub |-> Some("s1"),
        name |-> Some("Uma"), preferred_username |-> Some("uma@example.com") ],
      [ outcome |-> "claims", oid |-> None, sub |-> None,
        name |-> None, preferred_username |-> None ] }

\* GET /api/auth/callback
callback(query, exchange) ==
    /\ UNCHANGED <<players, matches>>
    /\ IF query.error # None
       THEN response' = Response("callback", "BadRequest", <<>>, <<>>, "Authentication failed")
       ELSE IF query.code = None
       THEN response' = Response("callback", "BadRequest", <<>>, <<>>,
                                 "Missing authorization code")
       ELSE IF exchange.outcome # "claims"
       THEN response' = Response("callback", "InternalServerError", <<>>, <<>>,
                                 exchange.outcome)
       ELSE LET user_id == IF exchange.oid # None THEN exchange.oid[1]
                           ELSE IF exchange.sub # None THEN exchange.sub[1]
                           ELSE "unknown"
                name    == IF exchange.name # None THEN exchange.name[1]
                           ELSE "Unknown User"
                email   == IF exchange.preferred_username # None
                           THEN exchange.preferred_username[1]
                           ELSE "unknown@unknown.com"
            IN  response' = Response("callback", "SeeOther", <<>>, <<>>,
                                     [ name  |-> SESSION_COOKIE_NAME,
                                       value |-> create_session_token(user_id, name, email) ])

\* GET /api/auth/me, `claims` the Option<Extension<SessionClaims>> of the request
me(claims) ==
    /\ UNCHANGED <<players, matches>>
    /\ IF claims # None
       THEN response' = Response("me", "Ok", <<>>, <<>>,
                                 [ authenticated |-> TRUE,
                                   user_id       |-> claims[1].sub,
                                   name          |-> claims[1].name,
                                   email         |-> claims[1].email ])
       ELSE response' = Response("me", "Ok", <<>>, <<>>, [ authenticated |-> FALSE ])

\* POST /api/auth/logout
logout ==
    /\ response' = Response("logout", "Ok", <<>>, <<>>,
                            [ name |-> SESSION_COOKIE_NAME, value |-> "" ])
    /\ UNCHANGED <<players, matches>>

\* GET /api/players
get_players ==
    /\ \E roster \in list_players(players) :
           response' = Response("list_players", "Ok", <<>>, <<>>, roster)
    /\ UNCHANGED <<players, matches>>

\* The handler of the route runs on the request; `extensions` holds the
\* SessionClaims if a middleware has inserted them.  The bodies and path
\* parameters are drawn here.
Handle(route, extensions) ==
    CASE route = "GET /auth/login" -> login
      [] route = "GET /auth/callback" ->
             \E query \in CallbackQueries, exchange \in Exchanges : callback(query, exchange)
      [] route = "GET /auth/me" -> me(extensions)
      [] route = "POST /auth/logout" -> logout
      [] route = "GET /players" -> get_players
      [] route = "POST /players" ->
             /\ \E id \in RaceIds :
                    create_player([ id |-> id, name |-> "Ann", nickname |-> "",
                                    avatar_emoji |-> "pong" ])
             /\ UNCHANGED matches
      [] route = "PUT /players/{id}" ->
             /\ \E id \in RaceIds : update_player(id, Some("Bea"), None, None)
             /\ UNCHANGED matches
      [] route = "DELETE /players/{id}" ->
             /\ \E id \in RaceIds : delete_player(id)
             /\ UNCHANGED matches
      [] route = "GET /matches" ->
             /\ response' = Response("list_matches", "Ok", <<>>, <<>>,
                                     [ limit   |-> None,
                                       matches |-> list_matches(matches, None) ])
             /\ UNCHANGED <<players, matches>>
      [] route = "POST /matches" ->
             /\ Len(matches) < MaxAuthMatches
             /\ \E slots \in KeySlots, uuid \in Uuids :
                    create_match(slots, NextInstant(MaxAuthMatches), uuid)
             /\ UNCHANGED players
      [] route = "DELETE /matches/{id}" ->
             /\ \E k \in 1..MaxAuthMatches, uuid \in Uuids :
                    delete_match(generate_match_row_key(0 - k, uuid))
             /\ UNCHANGED players
      [] route = "GET /leaderboard" -> get_leaderboard
      [] route = "GET /players/{id}/stats" -> \E id \in RaceIds : get_player_stats(id)
      [] route = "GET /rivalries" -> get_rivalries

\* require_auth in front of the handler of the route.  The AppConfig is in
\* the extensions of every request (api_router layers it over both routers).
require_auth(cookie_header, route) ==
    LET token == SessionCookie(cookie_header)
    IN  IF token = None
        THEN /\ response' = Response("require_auth", "Unauthorized", <<>>, <<>>,
                                     "Not authenticated")
             /\ UNCHANGED <<players, matches>>
        ELSE LET claims == validate_session_token(token[1])
             IN  IF claims # None
                 THEN Handle(route, claims)
                 ELSE /\ response' = Response("require_auth", "Unauthorized", <<>>, <<>>,
                                              "Invalid or expired session")
                      /\ UNCHANGED <<players, matches>>

\* api_router: one request served; inflight[1] keeps the request
ServeRequest ==
    /\ \E route \in Routes, cookie_header \in CookieHeaders :
           /\ inflight' = [inflight EXCEPT ![1] =
                              [ state |-> "done", route |-> route, cookie |-> cookie_header ]]
           /\ IF Layered(route)
              THEN require_auth(cookie_header, route)
              ELSE Handle(route, None)
    /\ UNCHANGED <<results, streak>>

AuthSpec == Init /\ [][ServeRequest]_vars

----------------------------------------------------------------------------
(* The leaderboard over regular doubles results in which one player has    *)
(* played once and another twice                                           *)

\* how many match records this history holds at most
MaxRankMatches == 2

\* The slots of the requests: bob wins his match, alice loses that one and
\* wins another.
RankSlots ==
    { <<"bob",   "dave", "alice", "carol">>,
      <<"alice", "eve",  "carol", "dave">> }

RecordRankedMatch ==
    /\ Len(matches) < MaxRankMatches
    /\ \E slots \in RankSlots, uuid \in Uuids :
           create_match(slots, NextInstant(MaxRankMatches), uuid)
    /\ UNCHANGED <<players, results, streak, inflight>>

RankNext ==
    \/ CreatePlayer
    \/ RecordRankedMatch
    \/ GetLeaderboard

RankSpec == Init /\ [][RankNext]_vars

----------------------------------------------------------------------------
(* The aggregation handlers between their awaits: each fetch is one call   *)
(* to the store, and writes of other requests can land between two of      *)
(* them.  inflight[c] keeps what the handler of client c has fetched so    *)
(* far, and `seen`, the contents of the store at the instants of the       *)
(* request (kept for the properties, the handlers never read it).          *)

\* how many match records the table holds at most
MaxSnapshotMatches == 2

\* the identifiers of the player requests
SnapshotIds == {"alice"}

\* the clients that send aggregation requests
Readers == {1}

\* the states of a handler that has fetched something and not yet answered
Fetching == {"listed_players", "got_player", "listed_matches"}

\* the contents of both tables
Store == <<players, matches>>

\* get_leaderboard and get_rivalries up to their first await: list_players
aggregate_list_players(c, kind) ==
    /\ inflight[c].state \in {"idle", "done"}
    /\ \E all_players \in list_players(players) :
           /\ kind = "rivalries" => all_players = AnyOrder(list_players(players))
           /\ inflight' = [inflight EXCEPT ![c] =
                              [ state       |-> "listed_players",
                                kind        |-> kind,
                                all_players |-> all_players,
                                seen        |-> {Store} ]]
    /\ UNCHANGED <<players, matches, response>>

\* the second await of the two handlers, list_matches, and the rest of the
\* handler, which calls no store any more
aggregate_list_matches(c) ==
    /\ inflight[c].state = "listed_players"
    /\ UNCHANGED <<players, matches>>
    /\ LET all_players == inflight[c].all_players
           all_matches == list_matches(matches, None)
       IN  /\ IF inflight[c].kind = "leaderboard"
              THEN response' = Response("leaderboard", "Ok", all_players, all_matches,
                                        Leaderboard(all_players, all_matches))
              ELSE \E rivalries \in Rivalries(all_players, all_matches) :
                       response' = Response("rivalries", "Ok", PlayerNames(all_players),
                                            all_matches, rivalries)
           /\ inflight' = [inflight EXCEPT ![c] =
                              [ state       |-> "done",
                                kind        |-> inflight[c].kind,
                                status      |-> "Ok",
                                all_players |-> all_players,
                                all_matches |-> all_matches,
                                seen        |-> inflight[c].seen ]]

\* get_player_stats up to its first await: get_player
stats_get_player(c, player_id) ==
    /\ inflight[c].state \in {"idle", "done"}
    /\ UNCHANGED <<players, matches>>
    /\ IF player_id \notin DOMAIN players
       THEN /\ response' = Response("player_stats", "NotFound", <<>>, <<>>, player_id)
            /\ inflight' = [inflight EXCEPT ![c] =
                               [ state  |-> "done",
                                 kind   |-> "player_stats",
                                 status |-> "NotFound",
                                 seen   |-> {Store} ]]
       ELSE /\ inflight' = [inflight EXCEPT ![c] =
                               [ state  |-> "got_player",
                                 kind   |-> "player_stats",
                                 player |-> PlayerOf(players, player_id),
                                 seen   |-> {Store} ]]
            /\ UNCHANGED response

\* its second await: list_matches (the loop over the matches follows)
stats_list_matches(c) ==
    /\ inflight[c].state = "got_player"
    /\ inflight' = [inflight EXCEPT ![c] =
                       [ state       |-> "listed_matches",
                         kind        |-> "player_stats",
                         player      |-> inflight[c].player,
                         all_matches |-> list_matches(matches, None),
                         seen        |-> inflight[c].seen ]]
    /\ UNCHANGED <<players, matches, response>>

\* its third await: list_players, for the names, and the answer
stats_list_players(c) ==
    /\ inflight[c].state = "listed_matches"
    /\ UNCHANGED <<players, matches>>
    /\ LET player      == inflight[c].player
           all_matches == inflight[c].all_matches
           all_players == AnyOrder(list_players(players))
       IN  /\ \E stats \in PlayerStats(player, all_matches, all_players) :
                  response' = Response("player_stats", "Ok", PlayerNames(all_players),
                                       all_matches, stats)
           /\ inflight' = [inflight EXCEPT ![c] =
                              [ state       |-> "done",
                                kind        |-> "player_stats",
                                status      |-> "Ok",
                                player      |-> player,
                                all_players |-> all_players,
                                all_matches |-> all_matches,
                                seen        |-> inflight[c].seen ]]

\* the requests in flight after a write: each has seen the store it left
Observe ==
    inflight' = [c \in Clients |->
                    IF inflight[c].state \in Fetching
                    THEN [inflight[c] EXCEPT !.seen = @ \cup {<<players', matches'>>}]
                    ELSE inflight[c]]

BeginAggregate ==
    /\ \E c \in Readers, kind \in {"leaderboard", "rivalries"} :
           aggregate_list_players(c, kind)
    /\ UNCHANGED <<results, streak>>

FinishAggregate ==
    /\ \E c \in Readers : aggregate_list_matches(c)
    /\ UNCHANGED <<results, streak>>

BeginStats ==
    /\ \E c \in Readers, id \in SnapshotIds : stats_get_player(c, id)
    /\ UNCHANGED <<results, streak>>

ContinueStats ==
    /\ \E c \in Readers : stats_list_matches(c)
    /\ UNCHANGED <<results, streak>>

FinishStats ==
    /\ \E c \in Readers : stats_list_players(c)
    /\ UNCHANGED <<results, streak>>

SnapshotCreatePlayer ==
    /\ \E id \in SnapshotIds :
           create_player([ id |-> id, name |-> "Ann", nickname |-> "",
                           avatar_emoji |-> "pong" ])
    /\ UNCHANGED <<matches, results, streak>>
    /\ Observe

SnapshotDeletePlayer ==
    /\ \E id \in SnapshotIds : delete_player(id)
    /\ UNCHANGED <<matches, results, streak>>
    /\ Observe

SnapshotRecordMatch ==
    /\ Len(matches) < MaxSnapshotMatches
    /\ \E slots \in KeySlots, uuid \in Uuids :
           create_match(slots, NextInstant(MaxSnapshotMatches), uuid)
    /\ UNCHANGED <<players, results, streak>>
    /\ Observe

SnapshotNext ==
    \/ BeginAggregate
    \/ FinishAggregate
    \/ BeginStats
    \/ ContinueStats
    \/ FinishStats
    \/ SnapshotCreatePlayer
    \/ SnapshotDeletePlayer
    \/ SnapshotRecordMatch

SnapshotSpec == Init /\ [][SnapshotNext]_vars

----------------------------------------------------------------------------
(* Concurrent PUT /api/players/{id} requests: update_player awaits         *)
(* get_player, applies the supplied fields to what it got, and awaits      *)
(* insert_or_replace; other handlers can run between the two awaits.       *)
(* `with` keeps the clients whose update was in flight together with this  *)
(* one (kept for the properties, the handlers never read it).              *)

\* The bodies of the update requests: only a name, or only a nickname.
RaceUpdates == { <<Some("Bea"), None, None>>, <<None, Some("Ace"), None>> }

\* the updates that are between their two awaits
Updating == {c \in Clients : inflight[c].state = "got"}

\* update_player up to the end of its first await: get_player, a NotFound
\* returned to the caller at once
update_player_get(c, id, name, nickname, avatar_emoji) ==
    /\ inflight[c].state \in {"idle", "done"}
    /\ UNCHANGED players
    /\ IF id \notin DOMAIN players
       THEN /\ response' = Response("update_player", "NotFound", <<>>, <<>>, id)
            /\ inflight' = [d \in Clients |->
                               IF d = c
                               THEN [ state |-> "done", id |-> id, name |-> name,
                                      nickname |-> nickname, avatar_emoji |-> avatar_emoji,
                                      status |-> "NotFound", with |-> {} ]
                               ELSE IF inflight[d].state \in {"got", "done"}
                               THEN [inflight[d] EXCEPT !.with = @ \ {c}]
                               ELSE inflight[d]]
       ELSE LET fetched == PlayerOf(players, id)
                current == [ id           |-> fetched.id,
                             name         |-> IF name # None THEN name[1] ELSE fetched.name,
                             nickname     |-> IF nickname # None THEN nickname[1]
                                              ELSE fetched.nickname,
                             avatar_emoji |-> IF avatar_emoji # None THEN avatar_emoji[1]
                                              ELSE fetched.avatar_emoji ]
            IN  /\ inflight' = [d \in Clients |->
                                   IF d = c
                                   THEN [ state |-> "got", id |-> id, name |-> name,
                                          nickname |-> nickname,
                                          avatar_emoji |-> avatar_emoji,
                                          current |-> current, status |-> "none",
                                          with |-> Updating \ {c} ]
                                   ELSE IF inflight[d].state = "got"
                                   THEN [inflight[d] EXCEPT !.with = @ \cup {c}]
                                   ELSE IF inflight[d].state = "done"
                                   THEN [inflight[d] EXCEPT !.with = @ \ {c}]
                                   ELSE inflight[d]]
                /\ UNCHANGED response

\* its second await: insert_or_replace of the whole entity, and the answer
update_player_put(c) ==
    /\ inflight[c].state = "got"
    /\ LET current == inflight[c].current
       IN  /\ players' = [k \in DOMAIN players \cup {current.id} |->
                             IF k = current.id THEN RowOf(current) ELSE players[k]]
           /\ response' = Response("update_player", "Ok", <<>>, <<>>, current)
    /\ inflight' = [inflight EXCEPT ![c].state = "done", ![c].status = "Ok"]

BeginUpdate ==
    /\ \E c \in Clients, id \in RaceIds, req \in RaceUpdates :
           update_player_get(c, id, req[1], req[2], req[3])
    /\ UNCHANGED <<matches, results, streak>>

FinishUpdate ==
    /\ \E c \in Clients : update_player_put(c)
    /\ UNCHANGED <<matches, results, streak>>

RaceCreatePlayer ==
    /\ \E id \in RaceIds :
           create_player([ id |-> id, name |-> "Ann", nickname |-> "",
                           avatar_emoji |-> "pong" ])
    /\ UNCHANGED <<matches, results, streak, inflight>>

UpdateRaceNext ==
    \/ RaceCreatePlayer
    \/ DeletePlayer
    \/ BeginUpdate
    \/ FinishUpdate

UpdateRaceSpec == Init /\ [][UpdateRaceNext]_vars

----------------------------------------------------------------------------
(* calculate_streak on its own: every result sequence up to MaxResults     *)

BoolSeqs(n) == UNION {[1..k -> BOOLEAN] : k \in 0..n}

\* a call of calculate_streak on any of these sequences
CalculateStreak ==
    /\ \E rs \in BoolSeqs(MaxResults) :
           /\ results' = rs
           /\ streak' = calculate_streak(rs)
    /\ UNCHANGED <<players, matches, response, inflight>>

StreakSpec == Init /\ [][CalculateStreak]_vars

----------------------------------------------------------------------------
(* Properties of the aggregations, each relative to the snapshot in the    *)
(* response.  The counts below are taken directly over the match list and  *)
(* share nothing with the folds of the handlers.                           *)

WinnerSlotNames == {"winner1_id", "winner2_id"}

LoserSlotNames == {"loser1_id", "loser2_id"}

\* how many of the given slots, over all matches of ms, hold the id p
SlotCount(p, ms, slotNames) ==
    Cardinality({ x \in (1..Len(ms)) \X slotNames : ms[x[1]][x[2]] = p })

OnWinningSide(m, p) == p = m.winner1_id \/ p = m.winner2_id

OnLosingSide(m, p) == p = m.loser1_id \/ p = m.loser2_id

IsLeaderboard == response.kind = "leaderboard"

IsPlayerStats == response.kind = "player_stats" /\ response.status = "Ok"

IsRivalries == response.kind = "rivalries"

\* the entries of a leaderboard response and the body of a stats response
ReportedTotals ==
    IF IsLeaderboard THEN {response.body[i] : i \in DOMAIN response.body}
    ELSE IF IsPlayerStats THEN {response.body}
    ELSE {}

\* C1: every registered player's leaderboard entry has wins equal to the
\* number of winner slots, and losses equal to the number of loser slots,
\* that hold the player's id over all matches.
C1_LeaderboardTallies ==
    IsLeaderboard =>
        \A k \in DOMAIN response.roster :
            \E i \in DOMAIN response.body :
                /\ response.body[i].player_id = response.roster[k].id
                /\ response.body[i].wins =
                       SlotCount(response.roster[k].id, response.log, WinnerSlotNames)
                /\ response.body[i].losses =
                       SlotCount(response.roster[k].id, response.log, LoserSlotNames)

\* a leaderboard over a single match that gives one player two wins and
\* another two losses
C1_Witness ==
    /\ IsLeaderboard
    /\ Len(response.log) = 1
    /\ \E i, j \in DOMAIN response.body :
           /\ response.body[i].wins = 2
           /\ response.body[j].losses = 2

\* C2: in every leaderboard entry and every player-stats result,
\* wins + losses = total_games, 0 <= wins <= total_games, the win rate is
\* wins / total_games within [0, 1], and it is 0 when total_games is 0.
C2_TotalsAndRate ==
    \A e \in ReportedTotals :
        /\ e.wins + e.losses = e.total_games
        /\ 0 <= e.wins /\ e.wins <= e.total_games
        /\ e.win_rate.den > 0
        /\ 0 <= e.win_rate.num /\ e.win_rate.num <= e.win_rate.den
        /\ e.total_games > 0 => e.win_rate.num * e.total_games = e.wins * e.win_rate.den
        /\ e.total_games = 0 => e.win_rate.num = 0

\* a leaderboard on which some player has won more often than lost, without
\* winning everything
C2_Witness ==
    /\ IsLeaderboard
    /\ \E i \in DOMAIN response.body :
           /\ response.body[i].wins > response.body[i].losses
           /\ response.body[i].losses > 0

\* C3 as stated: the win rate is 0 exactly when total_games is 0.
C3_ZeroRateIffNoGames ==
    \A e \in ReportedTotals : (e.win_rate.num = 0) <=> (e.total_games = 0)

\* C3 amended: the win rate is 0 exactly when wins is 0; a player without
\* games has win rate 0, and so has a player who has only lost.
C3_ZeroRateIffNoWins ==
    \A e \in ReportedTotals :
        /\ (e.win_rate.num = 0) <=> (e.wins = 0)
        /\ e.total_games = 0 => e.win_rate.num = 0

\* a player with games, all of them lost, is reported with win rate 0
C3_Witness ==
    \E e \in ReportedTotals :
        /\ e.total_games > 0
        /\ e.wins = 0
        /\ e.win_rate.num = 0

\* the absolute value of an integer
Abs(n) == IF n < 0 THEN 0 - n ELSE n

\* C4: calculate_streak is 0 on the empty sequence; otherwise its absolute
\* value is the length of the maximal run of values equal to the first at
\* the head of the sequence, positive for a win and negative for a loss,
\* however long the run ([true,true,false] gives 2,
\* [false,false,false,true] gives -3).
C4_StreakIsSignedHeadRun ==
    /\ results = <<>> => streak = 0
    /\ results # <<>> =>
           /\ Abs(streak) \in 1..Len(results)
           /\ \A i \in 1..Abs(streak) : results[i] = results[1]
           /\ Abs(streak) < Len(results) => results[Abs(streak) + 1] # results[1]
           /\ results[1] <=> streak > 0
    /\ results = <<TRUE, TRUE, FALSE>> => streak = 2
    /\ results = <<FALSE, FALSE, FALSE, TRUE>> => streak = 0 - 3

\* three losses after a win have been evaluated to -3
C4_Witness ==
    /\ results = <<FALSE, FALSE, FALSE, TRUE>>
    /\ streak = 0 - 3

\* the ids of a fetched roster
RosterIdsOf(roster) == {roster[i].id : i \in DOMAIN roster}

\* the ids that fill some slot of some match
Participants(ms) ==
    UNION { {ms[i].winner1_id, ms[i].winner2_id, ms[i].loser1_id, ms[i].loser2_id} :
            i \in 1..Len(ms) }

\* C5: the leaderboard has exactly one entry for each roster player and no
\* entry for any other id; a roster player who is in no match is listed
\* with wins, losses, total_games, win_rate and streak all 0.
C5_OneEntryPerRosterPlayer ==
    IsLeaderboard =>
        /\ Len(response.body) = Len(response.roster)
        /\ \A k \in DOMAIN response.roster :
               Cardinality({i \in DOMAIN response.body :
                               response.body[i].player_id = response.roster[k].id}) = 1
        /\ \A i \in DOMAIN response.body :
               /\ response.body[i].player_id \in RosterIdsOf(response.roster)
               /\ response.body[i].player_id \notin Participants(response.log) =>
                      /\ response.body[i].wins = 0
                      /\ response.body[i].losses = 0
                      /\ response.body[i].total_games = 0
                      /\ response.body[i].win_rate.num = 0
                      /\ response.body[i].streak = 0

\* a leaderboard over matches that involve an unregistered id and leave a
\* registered player out
C5_Witness ==
    /\ IsLeaderboard
    /\ Participants(response.log) \ RosterIdsOf(response.roster) # {}
    /\ RosterIdsOf(response.roster) \ Participants(response.log) # {}
    /\ RosterIdsOf(response.roster) \cap Participants(response.log) # {}

\* x's win rate is greater than y's
RateGreater(x, y) == x.num * y.den > y.num * x.den

\* C6: for every two leaderboard entries a listed before b, a's win rate is
\* at least b's, and when the rates are equal a's total_games is at least
\* b's.
C6_RankedByRateThenGames ==
    IsLeaderboard =>
        \A i, j \in DOMAIN response.body :
            i < j =>
                LET a == response.body[i]
                    b == response.body[j]
                IN  /\ ~RateGreater(b.win_rate, a.win_rate)
                    /\ a.win_rate = b.win_rate => a.total_games >= b.total_games

\* a leaderboard of three players in which the rates differ, two players tie
\* on the rate with different totals, and the store listed the roster in
\* another order than the ranking
C6_Witness ==
    /\ IsLeaderboard
    /\ Len(response.body) = 3
    /\ \E i, j \in DOMAIN response.body :
           RateGreater(response.body[i].win_rate, response.body[j].win_rate)
    /\ \E i, j \in DOMAIN response.body :
           /\ response.body[i].win_rate = response.body[j].win_rate
           /\ response.body[i].total_games > response.body[j].total_games
    /\ \E i \in DOMAIN response.body : response.body[i].player_id # response.roster[i].id

\* C7: two distinct players with equal win rate and equal total games are
\* listed in ascending identifier order, whatever order the store returned
\* the roster in.
C7_TiesByIdentifier ==
    IsLeaderboard =>
        \A i, j \in DOMAIN response.body :
            (/\ i < j
             /\ response.body[i].win_rate = response.body[j].win_rate
             /\ response.body[i].total_games = response.body[j].total_games)
            => StrLess(response.body[i].player_id, response.body[j].player_id)

\* the number of matches of ms that a won against b: a on the winning side
\* only, b on the losing side only
MatchesWon(a, b, ms) ==
    Cardinality({ i \in 1..Len(ms) :
                    /\ OnWinningSide(ms[i], a) /\ ~OnLosingSide(ms[i], a)
                    /\ OnLosingSide(ms[i], b) /\ ~OnWinningSide(ms[i], b) })

\* C8: for every rivalry entry, player1_wins is the number of matches
\* player1 won against player2, player2_wins the number player2 won against
\* player1, so their sum is the number of matches with one of the two on
\* the winning side and the other on the losing side.
C8_RivalryCountsMatches ==
    IsRivalries =>
        \A i \in DOMAIN response.body :
            LET e == response.body[i]
            IN  /\ e.player1_wins = MatchesWon(e.player1_id, e.player2_id, response.log)
                /\ e.player2_wins = MatchesWon(e.player2_id, e.player1_id, response.log)

\* C9: every rivalry entry has player1_id strictly smaller than player2_id,
\* and no unordered pair of players is in more than one entry, for every
\* match list create_match accepts.
C9_CanonicalDistinctPairs ==
    IsRivalries =>
        /\ \A i \in DOMAIN response.body :
               StrLess(response.body[i].player1_id, response.body[i].player2_id)
        /\ \A i, j \in DOMAIN response.body :
               {response.body[i].player1_id, response.body[i].player2_id}
                   = {response.body[j].player1_id, response.body[j].player2_id}
               => i = j

\* how often a and b met over ms: the winner slot / loser slot combinations
\* of a match that hold the two, one on each side
Meetings(a, b, ms) ==
    Cardinality({ t \in (1..Len(ms)) \X WinnerSlotNames \X LoserSlotNames :
                    <<ms[t[1]][t[2]], ms[t[1]][t[3]]>> \in {<<a, b>>, <<b, a>>} })

\* C10: a pair of players is in the rivalry output exactly when its combined
\* meetings are at least 2, and the entry's player1_wins + player2_wins is
\* that number: a pair that met once is absent, and it is present once one
\* more match opposes the two.
C10_ShownIffMetTwice ==
    IsRivalries =>
        /\ \A a, b \in Ids :
               Meetings(a, b, response.log) >= 2
               <=> \E i \in DOMAIN response.body :
                       {response.body[i].player1_id, response.body[i].player2_id} = {a, b}
        /\ \A i \in DOMAIN response.body :
               response.body[i].player1_wins + response.body[i].player2_wins
                   = Meetings(response.body[i].player1_id, response.body[i].player2_id,
                              response.log)

\* rivalries over two matches: one pair met once and is absent, another met
\* once in the older match and once more in the newer one and is present
C10_Witness ==
    /\ IsRivalries
    /\ Len(response.log) = 2
    /\ \E a, b \in Ids : Meetings(a, b, response.log) = 1
    /\ \E i \in DOMAIN response.body :
           LET a == response.body[i].player1_id
               b == response.body[i].player2_id
           IN  /\ Meetings(a, b, <<response.log[2]>>) = 1
               /\ Meetings(a, b, response.log) = 2

\* player1_wins + player2_wins of a rivalry entry
TotalMeetings(e) == e.player1_wins + e.player2_wins

\* C11: the rivalry output is sorted by total meetings descending, and
\* entries with equal total meetings are in ascending order of player1_id,
\* then of player2_id, so the order depends on the match list alone.
C11_RivalriesOrderedWithTieBreak ==
    IsRivalries =>
        \A i, j \in DOMAIN response.body :
            i < j =>
                LET a == response.body[i]
                    b == response.body[j]
                IN  /\ TotalMeetings(a) >= TotalMeetings(b)
                    /\ TotalMeetings(a) = TotalMeetings(b) =>
                           \/ StrLess(a.player1_id, b.player1_id)
                           \/ /\ a.player1_id = b.player1_id
                              /\ StrLess(a.player2_id, b.player2_id)

\* the number of matches of ms in which p and k fill the two winner slots
WonTogether(p, k, ms) ==
    Cardinality({ i \in 1..Len(ms) :
                    <<ms[i].winner1_id, ms[i].winner2_id>> \in {<<p, k>>, <<k, p>>} })

\* the number of matches of ms in which p and k fill the two loser slots
LostTogether(p, k, ms) ==
    Cardinality({ i \in 1..Len(ms) :
                    <<ms[i].loser1_id, ms[i].loser2_id>> \in {<<p, k>>, <<k, p>>} })

\* the teammates of p with at least two matches on p's team
EligiblePartners(p, ms) ==
    {k \in Ids : WonTogether(p, k, ms) + LostTogether(p, k, ms) >= 2}

\* C12: best_partner is present exactly when some teammate of the focal
\* player has wins_together + losses_together >= 2; the reported partner is
\* then such a teammate, no eligible teammate has more wins together, and
\* the reported wins and losses are the numbers of matches the two won and
\* lost on the same team.
C12_BestPartnerEligibleMax ==
    IsPlayerStats =>
        LET p  == response.body.player_id
            ms == response.log
            bp == response.body.best_partner
        IN  /\ bp # None <=> EligiblePartners(p, ms) # {}
            /\ bp # None =>
                   /\ bp[1].partner_id \in EligiblePartners(p, ms)
                   /\ bp[1].wins = WonTogether(p, bp[1].partner_id, ms)
                   /\ bp[1].losses = LostTogether(p, bp[1].partner_id, ms)
                   /\ \A k \in EligiblePartners(p, ms) :
                          WonTogether(p, k, ms) <= bp[1].wins

\* C13: among the eligible teammates with the maximum wins_together,
\* best_partner is the one with the fewest losses_together, and among those
\* the one with the smallest identifier, so the same match list always
\* gives the same partner.
C13_BestPartnerTieBreak ==
    IsPlayerStats =>
        LET p    == response.body.player_id
            ms   == response.log
            bp   == response.body.best_partner
            top  == {k \in EligiblePartners(p, ms) :
                        \A o \in EligiblePartners(p, ms) :
                            WonTogether(p, o, ms) <= WonTogether(p, k, ms)}
            calm == {k \in top :
                        \A o \in top : LostTogether(p, k, ms) <= LostTogether(p, o, ms)}
        IN  bp # None =>
                /\ bp[1].partner_id \in calm
                /\ \A o \in calm \ {bp[1].partner_id} : StrLess(bp[1].partner_id, o)

\* the number of matches of ms that p lost with o on the winning side
LostTo(p, o, ms) ==
    Cardinality({ i \in 1..Len(ms) : OnLosingSide(ms[i], p) /\ OnWinningSide(ms[i], o) })

\* the number of matches of ms that p won with o on the losing side
WonOver(p, o, ms) ==
    Cardinality({ i \in 1..Len(ms) : OnWinningSide(ms[i], p) /\ OnLosingSide(ms[i], o) })

\* C14: nemesis is present exactly when some opponent has beaten the focal
\* player at least twice; it is then the opponent with the most losses
\* against, among those the one with the most wins against, and among those
\* the one with the smallest identifier.
C14_NemesisWithTieBreak ==
    IsPlayerStats =>
        LET p     == response.body.player_id
            ms    == response.log
            nm    == response.body.nemesis
            elig  == {o \in Ids : LostTo(p, o, ms) >= 2}
            worst == {o \in elig : \A x \in elig : LostTo(p, x, ms) <= LostTo(p, o, ms)}
            even  == {o \in worst : \A x \in worst : WonOver(p, x, ms) <= WonOver(p, o, ms)}
        IN  /\ nm # None <=> elig # {}
            /\ nm # None =>
                   /\ nm[1].opponent_id \in even
                   /\ \A x \in even \ {nm[1].opponent_id} : StrLess(nm[1].opponent_id, x)

\* p fills one of the four slots of m
TakesPart(m, p) == OnWinningSide(m, p) \/ OnLosingSide(m, p)

\* the matches of ms that p takes part in, in the order of ms
MatchesOf(p, ms) == SelectSeq(ms, LAMBDA m : TakesPart(m, p))

\* C15: recent_matches is the first min(10, n) of the n matches of the
\* match list that the focal player takes part in, in the order of the
\* list; it holds no match without the player and at most 10 matches.
C15_RecentIsFirstTen ==
    IsPlayerStats =>
        LET p      == response.body.player_id
            mine   == MatchesOf(p, response.log)
            recent == response.body.recent_matches
            n      == Len(mine)
        IN  /\ Len(recent) = (IF n < 10 THEN n ELSE 10)
            /\ Len(recent) <= 10
            /\ recent = SubSeq(mine, 1, Len(recent))
            /\ \A i \in DOMAIN recent : TakesPart(recent[i], p)

\* the stats of a player with 11 matches, the newest of them behind a match
\* of other players: the 10 newest are reported, the oldest is cut off
C15_Witness ==
    /\ IsPlayerStats
    /\ Len(MatchesOf(response.body.player_id, response.log)) = 11
    /\ Len(response.body.recent_matches) = 10
    /\ ~TakesPart(response.log[1], response.body.player_id)

\* the name of id in the player table, or the placeholder
DisplayName(id) == IF id \in DOMAIN players THEN players[id].name ELSE "Unknown"

\* the id a player-stats request asked for
RequestedId == IF response.status = "Ok" THEN response.body.player_id ELSE response.body

\* C16: get_player_stats fails with NotFound exactly when the requested id
\* is not in the roster; otherwise it succeeds whatever ids the matches
\* reference, and the name of a teammate or opponent that is not in the
\* roster, in the stats and in rivalry entries, is "Unknown".
C16_NotFoundOrPlaceholder ==
    /\ response.kind = "player_stats" =>
           /\ response.status \in {"Ok", "NotFound"}
           /\ response.status = "NotFound" <=> RequestedId \notin DOMAIN players
           /\ response.status = "Ok" =>
                  LET bp == response.body.best_partner
                      nm == response.body.nemesis
                  IN  /\ bp # None => bp[1].partner_name = DisplayName(bp[1].partner_id)
                      /\ nm # None => nm[1].opponent_name = DisplayName(nm[1].opponent_id)
    /\ IsRivalries =>
           /\ response.status = "Ok"
           /\ \A i \in DOMAIN response.body :
                  /\ response.body[i].player1_name = DisplayName(response.body[i].player1_id)
                  /\ response.body[i].player2_name = DisplayName(response.body[i].player2_id)

\* the stats of a registered player whose best partner or nemesis is not in
\* the roster and is named "Unknown"
C16_Witness ==
    /\ IsPlayerStats
    /\ Participants(response.log) \ DOMAIN players # {}
    /\ \/ /\ response.body.best_partner # None
          /\ response.body.best_partner[1].partner_id \notin DOMAIN players
          /\ response.body.best_partner[1].partner_name = "Unknown"
       \/ /\ response.body.nemesis # None
          /\ response.body.nemesis[1].opponent_id \notin DOMAIN players
          /\ response.body.nemesis[1].opponent_name = "Unknown"

\* the instant a stored entity was played at
PlayedAt(e) == e.played_at[2]

\* C17: of two matches stored with different played-at instants, the later
\* one has the lexicographically smaller key, for every instant create_match
\* accepts: ascending key order is newest first.
C17_LaterInstantSmallerKey ==
    \A i, j \in 1..Len(matches) :
        PlayedAt(matches[i]) < PlayedAt(matches[j]) =>
            LexLess(RowKeyString(matches[j].row_key), RowKeyString(matches[i].row_key))

\* the stored rows whose played_at parses, in table order
WellFormed(tbl) == SelectSeq(tbl, LAMBDA e : ParsesAsRfc3339(e.played_at))

\* C18: list_matches returns the well-formed stored matches in ascending
\* key order and skips the rows whose played_at does not parse; with
\* limit = n it returns the first n of them, or all when there are fewer,
\* so it is never longer than n and is a prefix of the unlimited listing.
C18_ListIsPrefixOfWellFormed ==
    response.kind = "list_matches" =>
        LET limit == response.body.limit
            out   == response.body.matches
            wf    == WellFormed(matches)
            n     == IF limit = None \/ Len(wf) < limit[1] THEN Len(wf) ELSE limit[1]
        IN  /\ response.status = "Ok"
            /\ Len(out) = n
            /\ limit # None => Len(out) <= limit[1]
            /\ \A i \in 1..Len(out) :
                   /\ out[i].id = wf[i].row_key
                   /\ out[i] = MatchRecordFrom(wf[i])
            /\ \A i, j \in 1..Len(out) :
                   i < j => LexLess(RowKeyString(out[i].id), RowKeyString(out[j].id))

\* a listing with a limit that cuts the well-formed rows short, over a table
\* whose first row does not parse
C18_Witness ==
    /\ response.kind = "list_matches"
    /\ Len(matches) = 3
    /\ ~ParsesAsRfc3339(matches[1].played_at)
    /\ Len(WellFormed(matches)) = 2
    /\ response.body.limit = Some(1)
    /\ Len(response.body.matches) = 1

\* the rows of a table
Rows(tbl) == {tbl[i] : i \in 1..Len(tbl)}

\* the step is a DELETE /api/matches/{id} for this id
IsDeleteOf(id) == delete_match(id) /\ UNCHANGED <<players, results, streak, inflight>>

\* C19: delete_match on a stored id removes that record and no other, and
\* leaves the other match records, their order and every player record as
\* they were, so the match list every later aggregation fetches is the
\* list from before without that match; on an id that is not stored it
\* answers NotFound and changes nothing.
C19_DeleteRemovesOnlyThatMatch ==
    [][ response'.kind = "delete_match" =>
        \A id \in {generate_match_row_key(off, uuid) : off \in Instants, uuid \in Uuids} :
            IsDeleteOf(id) =>
                /\ players' = players
                /\ id \in RowKeys(matches) =>
                       /\ response'.status = "NoContent"
                       /\ Rows(matches') = {e \in Rows(matches) : e.row_key # id}
                       /\ Len(matches') = Len(matches) - 1
                       /\ \A i, j \in 1..Len(matches') :
                              i < j => LexLess(RowKeyString(matches'[i].row_key),
                                               RowKeyString(matches'[j].row_key))
                       /\ list_matches(matches', None)
                              = SelectSeq(list_matches(matches, None), LAMBDA m : m.id # id)
                /\ id \notin RowKeys(matches) =>
                       /\ response'.status = "NotFound"
                       /\ matches' = matches
      ]_vars

\* a delete has removed one of two stored matches
C19_Witness ==
    /\ response.kind = "delete_match"
    /\ response.status = "NoContent"
    /\ Len(matches) = 1

\* the requests of clients c and d raced: same identifier, and the
\* identifier was absent when each handler took its request
Raced(c, d) ==
    /\ c # d
    /\ inflight[c].state = "done" /\ inflight[d].state = "done"
    /\ inflight[c].req.id = inflight[d].req.id
    /\ inflight[c].fresh /\ inflight[d].fresh

\* C20: create_player with an identifier that is in the roster answers
\* AlreadyExists and leaves every profile as it was, and with a new
\* identifier it stores the profile; no listing of the roster holds an
\* identifier twice, and of two concurrent creates with the same identifier
\* exactly one succeeds.
C20_CreateOnceOnly ==
    /\ [](\A roster \in list_players(players) :
              \A i, j \in DOMAIN roster : roster[i].id = roster[j].id => i = j)
    /\ [](\A c, d \in Clients :
              Raced(c, d) =>
                  {inflight[c].status, inflight[d].status} = {"Created", "AlreadyExists"})
    /\ [][ \A c \in Clients :
               (inflight[c].state = "sent" /\ inflight'[c].state = "done") =>
                   LET req == inflight[c].req
                   IN  IF req.id \in DOMAIN players
                       THEN /\ inflight'[c].status = "AlreadyExists"
                            /\ players' = players
                       ELSE /\ inflight'[c].status = "Created"
                            /\ DOMAIN players' = DOMAIN players \cup {req.id}
                            /\ players'[req.id].name = req.name
                            /\ \A k \in DOMAIN players : players'[k] = players[k]
         ]_vars

\* two clients raced to create the same identifier under different names:
\* one was answered Created, the other AlreadyExists, and the stored
\* profile is the one of the request that succeeded
C20_Witness ==
    \E c, d \in Clients :
        /\ Raced(c, d)
        /\ inflight[c].req.name # inflight[d].req.name
        /\ inflight[c].status = "Created"
        /\ inflight[d].status = "AlreadyExists"
        /\ players[inflight[c].req.id].name = inflight[c].req.name

----------------------------------------------------------------------------
(* update_player                                                           *)

\* the value a field has after an update that supplied `given` for it
Updated(given, before) == IF given # None THEN given[1] ELSE before

\* C21: update_player on a player of the roster sets exactly the supplied
\* fields to the supplied values, leaves the other fields, the identifier,
\* every other player and every match record as they were, and answers with
\* the stored profile; on an identifier that is not in the roster it answers
\* NotFound and stores nothing.
C21_UpdateChangesSuppliedFieldsOnly ==
    [][ response'.kind = "update_player" =>
            LET req == inflight'[1]
            IN  /\ matches' = matches
                /\ DOMAIN players' = DOMAIN players
                /\ \A k \in DOMAIN players \ {req.id} : players'[k] = players[k]
                /\ IF req.id \in DOMAIN players
                   THEN /\ players'[req.id].name
                              = Updated(req.name, players[req.id].name)
                        /\ players'[req.id].nickname
                              = Updated(req.nickname, players[req.id].nickname)
                        /\ players'[req.id].avatar_emoji
                              = Updated(req.avatar_emoji, players[req.id].avatar_emoji)
                        /\ response'.status = "Ok"
                        /\ response'.body = PlayerOf(players', req.id)
                        /\ response'.body.id = req.id
                   ELSE /\ response'.status = "NotFound"
                        /\ players' = players
      ]_vars

\* an update that supplied only the nickname has answered: the stored
\* profile carries the new nickname next to the name it was created with,
\* beside another player and a stored match
C21_Witness ==
    /\ response.kind = "update_player" /\ response.status = "Ok"
    /\ inflight[1].state = "done"
    /\ inflight[1].name = None /\ inflight[1].avatar_emoji = None
    /\ inflight[1].nickname = Some("Ace")
    /\ response.body.nickname = "Ace" /\ response.body.name = "Bea"
    /\ players[inflight[1].id] = RowOf(response.body)
    /\ DOMAIN players = RaceIds
    /\ Len(matches) = 1

----------------------------------------------------------------------------
(* The session of a request                                                *)

\* the request that was served last
Served == inflight[1].state = "done"

\* the claims of the session a Cookie header carries, if it carries a cookie
\* named session whose token has our signature and has not expired
SessionOf(cookie_header) ==
    IF cookie_header = None THEN None
    ELSE LET cookies == cookie_header[1]
             valid   == {i \in DOMAIN cookies :
                            /\ cookies[i].name = "session"
                            /\ cookies[i].value.key = "session_secret"
                            /\ ~cookies[i].value.expired
                            /\ \A j \in 1..(i - 1) : cookies[j].name # "session"}
         IN  IF valid = {} THEN None ELSE Some(cookies[CHOOSE i \in valid : TRUE].value.claims)

\* C22: a match stored by create_match has recorded_by equal to the sub of
\* the session of the caller who submitted it.
C22_RecordedByCaller ==
    (Served /\ inflight[1].route = "POST /matches" /\ response.status = "Created") =>
        LET session == SessionOf(inflight[1].cookie)
        IN  /\ session # None
            /\ response.body.recorded_by = session[1].sub
            /\ \E i \in DOMAIN matches :
                   /\ matches[i].row_key = response.body.id
                   /\ matches[i].recorded_by = session[1].sub

C24_MeReportsSession ==
    (Served /\ inflight[1].route = "GET /auth/me") =>
        LET session == SessionOf(inflight[1].cookie)
        IN  /\ response.kind = "me"
            /\ session # None =>
                   /\ response.body.authenticated
                   /\ response.body.user_id = session[1].sub
                   /\ response.body.name = session[1].name
                   /\ response.body.email = session[1].email
            /\ ~response.body.authenticated => session = None

----------------------------------------------------------------------------
(* The minimum number of games                                             *)

\* C25: the leaderboard applies a minimum number of games: a player whose
\* whole record is 1 win and 0 losses is never ranked first ahead of a
\* player who has played more games.
C25_NoLeaderOnOneGame ==
    (IsLeaderboard /\ response.body # <<>>) =>
        LET first == response.body[1]
        IN  ~ /\ first.wins = 1
              /\ first.losses = 0
              /\ \E j \in DOMAIN response.body :
                     j > 1 /\ response.body[j].total_games > first.total_games

----------------------------------------------------------------------------
(* The snapshot of an aggregation request                                  *)

\* the roster is the player table `tbl`, in whatever order
RosterIs(all_players, tbl) ==
    /\ Len(all_players) = Cardinality(DOMAIN tbl)
    /\ \A id \in DOMAIN tbl :
           \E i \in DOMAIN all_players :
               /\ all_players[i].id = id
               /\ all_players[i].name = tbl[id].name
               /\ all_players[i].nickname = tbl[id].nickname
               /\ all_players[i].avatar_emoji = tbl[id].avatar_emoji

\* the match list is the match table `tbl`, row by row
LogIs(all_matches, tbl) ==
    /\ Len(all_matches) = Len(tbl)
    /\ \A i \in DOMAIN tbl :
           /\ all_matches[i].id = tbl[i].row_key
           /\ all_matches[i].winner1_id = tbl[i].winner1_id
           /\ all_matches[i].loser1_id = tbl[i].loser1_id

\* the focal player is a row of the player table `tbl`
FocalIs(player, tbl) ==
    /\ player.id \in DOMAIN tbl
    /\ player.name = tbl[player.id].name

\* the request of client c has been answered with an aggregation
Answered(c) == inflight[c].state = "done" /\ inflight[c].status = "Ok"

----------------------------------------------------------------------------
(* The leaderboard against the player statistics                           *)

\* C27: over the same roster and match list, the wins, losses, total_games
\* and streak of a player's leaderboard entry equal those of the player's
\* statistics, whatever identifiers fill the four slots of the matches.
C27_LeaderboardAgreesWithStats ==
    IsLeaderboard =>
        \A i \in DOMAIN response.body :
            LET entry  == response.body[i]
                player == CHOOSE p \in Rows(response.roster) : p.id = entry.player_id
            IN  \A stats \in PlayerStats(player, response.log, response.roster) :
                    /\ entry.wins = stats.wins
                    /\ entry.losses = stats.losses
                    /\ entry.total_games = stats.total_games
                    /\ entry.streak = stats.streak

----------------------------------------------------------------------------
(* Concurrent updates of one player                                        *)

\* the updates of clients c and d were in flight together, both have been
\* answered Ok, and they are for the same player
UpdatedTogether(c, d) ==
    /\ c # d
    /\ inflight[c].state = "done" /\ inflight[d].state = "done"
    /\ inflight[c].status = "Ok" /\ inflight[d].status = "Ok"
    /\ d \in inflight[c].with /\ c \in inflight[d].with
    /\ inflight[c].id = inflight[d].id

\* C28: after two concurrent updates of the same player, one supplying only
\* the name and the other only the nickname, have both completed, the stored
\* profile carries both new values.
C28_ConcurrentUpdatesMerge ==
    \A c, d \in Clients :
        ( /\ UpdatedTogether(c, d)
          /\ inflight[c].name # None /\ inflight[c].nickname = None
          /\ inflight[d].name = None /\ inflight[d].nickname # None
          /\ inflight[c].id \in DOMAIN players ) =>
            /\ players[inflight[c].id].name = inflight[c].name[1]
            /\ players[inflight[c].id].nickname = inflight[d].nickname[1]

\* C29: a player that is absent from the roster becomes present only by a
\* create_player that succeeds: no update creates or re-creates a record.
C29_OnlyCreateAddsPlayers ==
    [][ \A id \in RaceIds :
            (id \notin DOMAIN players /\ id \in DOMAIN players') =>
                /\ response'.kind = "create_player"
                /\ response'.status = "Created"
                /\ response'.body.id = id
      ]_vars

----------------------------------------------------------------------------
(* A player as their own partner or nemesis                                *)

\* C30: the statistics of a player never name that player as their own best
\* partner or as their own nemesis, whatever identifiers fill the slots of
\* the stored matches.
C30_NeverOwnPartnerOrNemesis ==
    IsPlayerStats =>
        /\ response.body.best_partner # None =>
               response.body.best_partner[1].partner_id # response.body.player_id
        /\ response.body.nemesis # None =>
               response.body.nemesis[1].opponent_id # response.body.player_id

====
